---- MODULE Spec2Model ----
(***************************************************************************)
(* A model of multimodal_client.py: the MultiModalDialog websocket client  *)
(* (session controller and event dispatcher) together with the transport   *)
(* object it drives (websocket.WebSocketApp) and the MultiModalCallback    *)
(* handler whose notifications it invokes.                                 *)
(*                                                                         *)
(* Python values are tagged records [t |-> tag, v |-> value]; a JSON       *)
(* object is a TLA+ function from key strings to tagged values; base64     *)
(* text is a sequence of one-character strings and bytes are sequences of  *)
(* integers 0..255.                                                        *)
(*                                                                         *)
(* calls, sent and nmsgs describe the connection while it is open and are  *)
(* emptied when it leaves that state; last holds the effects of the most   *)
(* recent handler or method, in the order it produced them.                *)
(***************************************************************************)
EXTENDS Integers, Sequences, FiniteSets

VARIABLES
    ws,               \* self.ws: 0 is None, n > 0 the n-th WebSocketApp created
    sock,             \* transport state of self.ws
    dialog_id,        \* self.dialog_id
    ctor_dialog_id,   \* the dialog_id argument of __init__ (history)
    passed_dialog_id, \* most recent non-empty id passed to start() (history)
    params_dialog_id, \* self.params_dialog_id.dialog_id
    nconn,            \* number of WebSocketApp objects created by this instance
    calls,            \* outbound method calls made on the open connection
    sent,             \* envelopes the transport delivered on the open connection
    nmsgs,            \* inbound messages dispatched on the open connection
    last,             \* the most recent operation: its inputs, effects and outcome
    fired,            \* lifecycle callbacks notified since the last start()
    closes,           \* on_close notifications for the current connection
    closeReq          \* an inbound "close" was dispatched on the current connection

vars == <<ws, sock, dialog_id, ctor_dialog_id, passed_dialog_id, params_dialog_id,
          nconn, calls, sent, nmsgs, last, fired, closes, closeReq>>

(***************************************************************************)
(* Bounds of the model.                                                    *)
(***************************************************************************)
\* operations (outbound calls and inbound messages) followed on one open connection
MaxOps == 2
\* start() calls followed on one instance
MaxConns == 2

(***************************************************************************)
(* Python values.                                                          *)
(***************************************************************************)
None == [t |-> "none"]
Str(s) == [t |-> "str", v |-> s]
Chars(c) == [t |-> "chars", v |-> c]
Bytes(b) == [t |-> "bytes", v |-> b]
IntVal(i) == [t |-> "int", v |-> i]
List(l) == [t |-> "list", v |-> l]
Dict(d) == [t |-> "dict", v |-> d]
Json(d) == [t |-> "json", v |-> d]

IsStr(x, s) == x.t = "str" /\ x.v = s

\* Python truthiness of an Optional[str]
Truthy(x) == x.t = "str" /\ x.v # ""

\* Python's  a or b
Or(a, b) == IF Truthy(a) THEN a ELSE b

EmptyDict == [k \in {} |-> None]

\* dict.get(key, default)
Get(d, k, default) == IF k \in DOMAIN d THEN d[k] ELSE default

(***************************************************************************)
(* base64                                                                  *)
(***************************************************************************)
B64Alphabet ==
    << "A","B","C","D","E","F","G","H","I","J","K","L","M","N","O","P",
       "Q","R","S","T","U","V","W","X","Y","Z","a","b","c","d","e","f",
       "g","h","i","j","k","l","m","n","o","p","q","r","s","t","u","v",
       "w","x","y","z","0","1","2","3","4","5","6","7","8","9","+","/" >>

B64Pad == "="

B64Char(i) == B64Alphabet[i + 1]

B64Index(c) == CHOOSE i \in 0..63 : B64Alphabet[i + 1] = c

IsB64Char(c) == \E i \in 0..63 : B64Alphabet[i + 1] = c

RECURSIVE B64Encode(_)
B64Encode(b) ==
    IF Len(b) = 0 THEN <<>>
    ELSE IF Len(b) = 1 THEN
        << B64Char(b[1] \div 4), B64Char((b[1] % 4) * 16), B64Pad, B64Pad >>
    ELSE IF Len(b) = 2 THEN
        << B64Char(b[1] \div 4),
           B64Char((b[1] % 4) * 16 + b[2] \div 16),
           B64Char((b[2] % 16) * 4), B64Pad >>
    ELSE
        << B64Char(b[1] \div 4),
           B64Char((b[1] % 4) * 16 + b[2] \div 16),
           B64Char((b[2] % 16) * 4 + b[3] \div 64),
           B64Char(b[3] % 64) >> \o B64Encode(SubSeq(b, 4, Len(b)))

\* One step of the decoder's loop over the input characters.
B64Step(st, c) ==
    IF st.done THEN st
    ELSE IF c = B64Pad THEN
        IF st.quad >= 2 /\ st.quad + st.pads + 1 >= 4
        THEN [st EXCEPT !.done = TRUE]
        ELSE IF st.quad >= 2 THEN [st EXCEPT !.pads = st.pads + 1] ELSE st
    ELSE IF ~IsB64Char(c) THEN st
    ELSE LET x == B64Index(c) IN
         CASE st.quad = 0 -> [st EXCEPT !.quad = 1, !.left = x, !.pads = 0]
           [] st.quad = 1 -> [st EXCEPT !.quad = 2, !.left = x % 16, !.pads = 0,
                                        !.out = Append(st.out, st.left * 4 + x \div 16)]
           [] st.quad = 2 -> [st EXCEPT !.quad = 3, !.left = x % 4, !.pads = 0,
                                        !.out = Append(st.out, st.left * 16 + x \div 4)]
           [] OTHER       -> [st EXCEPT !.quad = 0, !.left = 0, !.pads = 0,
                                        !.out = Append(st.out, st.left * 64 + x)]

RECURSIVE B64Loop(_, _)
B64Loop(st, s) ==
    IF Len(s) = 0 THEN st ELSE B64Loop(B64Step(st, s[1]), Tail(s))

\* base64.b64decode(s): the bytes, or an exception (incorrect padding)
B64Decode(s) ==
    LET st == B64Loop([quad |-> 0, left |-> 0, pads |-> 0, out |-> <<>>, done |-> FALSE], s)
    IN  IF st.done \/ st.quad = 0
        THEN [ok |-> TRUE, bytes |-> st.out]
        ELSE [ok |-> FALSE, bytes |-> <<>>]

(***************************************************************************)
(* Inputs.                                                                 *)
(***************************************************************************)
\* dialog_id arguments of __init__ and of start(), and params_dialog_id.dialog_id
CtorDialogIds == {None, Str("d1")}
StartDialogIds == {None, Str(""), Str("d2")}
ParamsDialogIds == {None, Str("d1")}

\* speech_data arguments of send_audio_data, and the audio the server sends
AudioSamples == { <<>>, <<255>>, <<97, 98>>, <<97, 98, 99>> }
InboundAudio == { <<104, 101, 108, 108, 111>>, <<255, 0>> }

\* data fields that are not the base64 text of any bytes: one data character,
\* and a quantum with its padding missing
BadBase64 == { <<"A">>, <<"Y", "W", "J">> }

\* (request_type, text, parameters) arguments of request_to_respond
RespondRequests ==
    { <<"prompt", "hi", None>>,
      <<"transcript", "look", [t |-> "params", v |-> [images |-> List(<<"img1">>)]]>> }

\* RequestParameters, built as the example under __main__ builds it
RequestParameters(d) ==
    [ upstream    |-> Dict([type |-> Str("AudioOnly"), mode |-> Str("push2talk"),
                            audio_format |-> Str("pcm")]),
      downstream  |-> Dict([voice |-> None, sample_rate |-> IntVal(48000)]),
      client_info |-> Dict([user_id |-> Str("aabb"),
                            device |-> Dict([uuid |-> Str("1234567890")])]),
      sandbox     |-> [t |-> "bool", v |-> FALSE],
      directive   |-> Str("Start"),
      dialog_id   |-> d ]

\* Inbound messages: text that is not JSON, JSON that is not an object, and objects.
NotJson == [valid |-> FALSE, json |-> None]
JsonText(x) == [valid |-> TRUE, json |-> x]

Objects ==
    { [action |-> Str("speech_audio")],
      [action |-> Str("speech_audio"), data |-> IntVal(5)],
      [action |-> Str("speech_text")],
      [action |-> Str("speech_text"), text |-> Str("hello")],
      [action |-> Str("reply_text"), text |-> Str("hi there")],
      [action |-> Str("state"), state |-> Str("Listening")],
      [action |-> Str("state")],
      [action |-> Str("close")],
      [action |-> Str("foo"), text |-> Str("x")],
      [action |-> IntVal(5)],
      [text |-> Str("no action")] }
    \cup { [action |-> Str("speech_audio"), data |-> Chars(B64Encode(b))] : b \in InboundAudio }
    \cup { [action |-> Str("speech_audio"), data |-> Chars(c)] : c \in BadBase64 }

Messages ==
    {NotJson, JsonText(List(<<>>)), JsonText(None), JsonText(Str("speech_text"))}
    \cup { JsonText(Dict(o)) : o \in Objects }

\* errors the transport reports
TransportErrors == {"ConnectionRefused", "ConnectionLost"}

(***************************************************************************)
(* Effects of a handler or method, in the order they happen.               *)
(***************************************************************************)
Notify(name, val) == [kind |-> "notify", name |-> name, val |-> val]
SendCall(env) == [kind |-> "send", name |-> "ws.send", val |-> Dict(env)]
CloseCall == [kind |-> "close", name |-> "ws.close", val |-> None]

Result(effects, raised) == [effects |-> effects, raised |-> raised]

IsSendEffect(e) == e.kind = "send"

\* the envelopes a sequence of effects hands to ws.send, in order
Envelopes(effects) ==
    LET snd == SelectSeq(effects, IsSendEffect) IN [i \in 1..Len(snd) |-> snd[i].val.v]

Names(effects) == { effects[i].name : i \in { j \in 1..Len(effects) : effects[j].kind = "notify" } }

\* the connection-lifecycle notifications of MultiModalCallback
LifecycleNames == {"on_connected", "on_started", "on_stopped", "on_error", "on_close"}

Lifecycle(effects) == Names(effects) \cap LifecycleNames

(***************************************************************************)
(* The transport (websocket.WebSocketApp).                                 *)
(***************************************************************************)
\* WebSocketApp.send delivers on a connected socket and raises
\* WebSocketConnectionClosedException otherwise: while the socket is still
\* connecting, once ws.close() has been called, and after the teardown
Delivers(s) == s = "open"

(***************************************************************************)
(* MultiModalDialog                                                        *)
(***************************************************************************)
Init ==
    /\ ws = 0
    /\ sock = "none"
    /\ ctor_dialog_id \in CtorDialogIds
    /\ dialog_id = ctor_dialog_id
    /\ passed_dialog_id = None
    /\ params_dialog_id \in ParamsDialogIds
    /\ nconn = 0
    /\ calls = <<>>
    /\ sent = <<>>
    /\ nmsgs = 0
    /\ last = [op |-> "__init__", arg |-> None, effects |-> <<>>, raised |-> FALSE]
    /\ fired = {}
    /\ closes = 0
    /\ closeReq = FALSE

\* a start() that keeps the stored id when there is one:  self.dialog_id or dialog_id
StartDialogId_StoredFirst(d, cur) == Or(cur, d)

\* start(): self.dialog_id = dialog_id or self.dialog_id
StartDialogId(d, cur) == Or(d, cur)

\* start(dialog_id): creates the WebSocketApp and enters run_forever, which
\* returns when the connection has closed; the caller can start again then.
start(d) ==
    /\ sock \in {"none", "closed"}
    /\ nconn < MaxConns
    /\ dialog_id' = StartDialogId(d, dialog_id)
    /\ passed_dialog_id' = IF d.t = "str" /\ d.v # "" THEN d ELSE passed_dialog_id
    /\ ws' = nconn + 1
    /\ nconn' = nconn + 1
    /\ sock' = "connecting"
    /\ calls' = <<>>
    /\ sent' = <<>>
    /\ nmsgs' = 0
    /\ fired' = {}
    /\ closes' = 0
    /\ closeReq' = FALSE
    /\ last' = [op |-> "start", arg |-> d, effects |-> <<>>, raised |-> FALSE]
    /\ UNCHANGED <<ctor_dialog_id, params_dialog_id>>

\* the start envelope of _on_open
StartEnvelope(params) == [action |-> Str("start"), params |-> Json(params)]

\* _on_open
OnOpenEffects(params, id) ==
    << Notify("on_connected", None),
       SendCall(StartEnvelope(params)),
       Notify("on_started", Or(id, Str(""))) >>

on_open ==
    /\ sock = "connecting"
    /\ sock' = "open"
    /\ LET eff == OnOpenEffects(RequestParameters(params_dialog_id), dialog_id) IN
       /\ last' = [op |-> "_on_open", arg |-> None, effects |-> eff, raised |-> FALSE]
       /\ sent' = sent \o Envelopes(eff)
       /\ fired' = fired \cup Lifecycle(eff)
    /\ UNCHANGED <<ws, dialog_id, ctor_dialog_id, passed_dialog_id, params_dialog_id,
                   nconn, calls, nmsgs, closes, closeReq>>

\* json.loads(message), with the except branch's  data = {}
DecodeFallback == Dict(EmptyDict)

json_loads(message) == IF message.valid THEN message.json ELSE DecodeFallback

\* the branches of _on_message
SpeechAudioBranch(obj) ==
    LET d == Get(obj, "data", Chars(<<>>)) IN
    IF d.t # "chars" THEN Result(<<>>, TRUE)
    ELSE LET r == B64Decode(d.v) IN
         IF r.ok THEN Result(<<Notify("on_speech_audio_data", Bytes(r.bytes))>>, FALSE)
         ELSE Result(<<>>, TRUE)

SpeechTextBranch(obj) == Result(<<Notify("on_speech_content", Get(obj, "text", None))>>, FALSE)

ReplyTextBranch(obj) == Result(<<Notify("on_responding_content", Get(obj, "text", None))>>, FALSE)

StateBranch(obj) == Result(<<Notify("on_state_changed", Get(obj, "state", None))>>, FALSE)

\* a close branch that reports the end of the dialog and leaves the socket alone
CloseBranch_NotifyOnly == Result(<<Notify("on_stopped", None)>>, FALSE)

CloseBranch == Result(<<CloseCall>>, FALSE)

\* a last branch written  else:  in place of  elif action == "close":
IsCloseAction_Else(action) == TRUE

IsCloseAction(action) == IsStr(action, "close")

\* _on_message: data.get raises on a JSON value that is not an object
Dispatch(message) ==
    LET data == json_loads(message) IN
    IF data.t # "dict" THEN Result(<<>>, TRUE)
    ELSE LET obj == data.v
             action == Get(obj, "action", None)
         IN  IF IsStr(action, "speech_audio") THEN SpeechAudioBranch(obj)
             ELSE IF IsStr(action, "speech_text") THEN SpeechTextBranch(obj)
             ELSE IF IsStr(action, "reply_text") THEN ReplyTextBranch(obj)
             ELSE IF IsStr(action, "state") THEN StateBranch(obj)
             ELSE IF IsCloseAction(action) THEN CloseBranch
             ELSE Result(<<>>, FALSE)

HasClose(effects) == \E i \in 1..Len(effects) : effects[i].kind = "close"

on_message(message) ==
    /\ sock = "open"
    /\ Len(calls) + nmsgs < MaxOps
    /\ LET r == Dispatch(message) IN
       /\ last' = [op |-> "_on_message", arg |-> [t |-> "message", v |-> message],
                   effects |-> r.effects, raised |-> r.raised]
       /\ fired' = fired \cup Lifecycle(r.effects)
       /\ closeReq' = (closeReq \/ HasClose(r.effects))
       /\ IF HasClose(r.effects)
          THEN sock' = "closing" /\ calls' = <<>> /\ sent' = <<>> /\ nmsgs' = 0
          ELSE /\ sock' = sock
               /\ calls' = calls
               /\ sent' = sent \o Envelopes(r.effects)
               /\ nmsgs' = nmsgs + 1
    /\ UNCHANGED <<ws, dialog_id, ctor_dialog_id, passed_dialog_id, params_dialog_id,
                   nconn, closes>>

\* _on_error: the transport reports a failed connect or a lost connection,
\* which ends the run loop
OnErrorEffects(error) == <<Notify("on_error", Str(error))>>

on_error(error) ==
    /\ sock \in {"connecting", "open"}
    /\ sock' = "closing"
    /\ calls' = <<>>
    /\ sent' = <<>>
    /\ nmsgs' = 0
    /\ LET eff == OnErrorEffects(error) IN
       /\ last' = [op |-> "_on_error", arg |-> Str(error), effects |-> eff, raised |-> FALSE]
       /\ fired' = fired \cup Lifecycle(eff)
    /\ UNCHANGED <<ws, dialog_id, ctor_dialog_id, passed_dialog_id, params_dialog_id,
                   nconn, closes, closeReq>>

\* the server or the network closes the connection
remote_close ==
    /\ sock = "open"
    /\ sock' = "closing"
    /\ calls' = <<>>
    /\ sent' = <<>>
    /\ nmsgs' = 0
    /\ last' = [op |-> "remote_close", arg |-> None, effects |-> <<>>, raised |-> FALSE]
    /\ UNCHANGED <<ws, dialog_id, ctor_dialog_id, passed_dialog_id, params_dialog_id,
                   nconn, fired, closes, closeReq>>

\* _on_close: the run loop tears the connection down and run_forever returns
OnCloseEffects(code, msg) == <<Notify("on_close", List(<<code, msg>>))>>

on_close ==
    /\ sock = "closing"
    /\ sock' = "closed"
    /\ LET eff == OnCloseEffects(IntVal(1000), Str("")) IN
       /\ last' = [op |-> "_on_close", arg |-> None, effects |-> eff, raised |-> FALSE]
       /\ fired' = fired \cup Lifecycle(eff)
       /\ closes' = closes + Cardinality({i \in 1..Len(eff) : eff[i].name = "on_close"})
    /\ UNCHANGED <<ws, dialog_id, ctor_dialog_id, passed_dialog_id, params_dialog_id,
                   nconn, calls, sent, nmsgs, closeReq>>

(***************************************************************************)
(* Outbound action methods.                                                *)
(***************************************************************************)
\* if self.ws:
Guard(w) == w # 0

StartSpeechEnvelope == [action |-> Str("start_speech")]
AudioEnvelope(speech_data) == [action |-> Str("audio"), data |-> Chars(B64Encode(speech_data))]
\* stop_speech pasted from start_speech with its action left unchanged
StopSpeechEnvelope_Pasted == [action |-> Str("start_speech")]

StopSpeechEnvelope == [action |-> Str("stop_speech")]
InterruptEnvelope == [action |-> Str("interrupt")]
LocalRespondingStartedEnvelope == [action |-> Str("local_responding_started")]
LocalRespondingEndedEnvelope == [action |-> Str("local_responding_ended")]
StopEnvelope == [action |-> Str("stop")]
GetStateEnvelope == [action |-> Str("get_state")]
RespondEnvelope(request_type, text, parameters) ==
    [ action |-> Str("request_to_respond"),
      type   |-> Str(request_type),
      text   |-> Str(text),
      params |-> IF parameters.t = "params" THEN Dict(parameters.v) ELSE Dict(EmptyDict) ]

\* the calls the model follows: any number while the connection is not open
CanCall == sock = "open" => Len(calls) + nmsgs < MaxOps

\* the body shared by the nine methods: the guard, then self.ws.send(json.dumps(..))
Outbound(op, arg, env) ==
    /\ LET eff == IF Guard(ws) THEN <<SendCall(env)>> ELSE <<>>
           raised == Len(eff) > 0 /\ ~Delivers(sock)
       IN  /\ last' = [op |-> op, arg |-> arg, effects |-> eff, raised |-> raised]
           /\ sent' = IF raised THEN sent ELSE sent \o Envelopes(eff)
    /\ calls' = IF sock = "open" THEN Append(calls, [op |-> op, arg |-> arg]) ELSE calls
    /\ UNCHANGED <<ws, sock, dialog_id, ctor_dialog_id, passed_dialog_id, params_dialog_id,
                   nconn, nmsgs, fired, closes, closeReq>>

start_speech ==
    /\ CanCall
    /\ Outbound("start_speech", None, StartSpeechEnvelope)

send_audio_data(speech_data) ==
    /\ CanCall
    /\ Outbound("send_audio_data", Bytes(speech_data), AudioEnvelope(speech_data))

stop_speech ==
    /\ CanCall
    /\ Outbound("stop_speech", None, StopSpeechEnvelope)

interrupt ==
    /\ CanCall
    /\ Outbound("interrupt", None, InterruptEnvelope)

local_responding_started ==
    /\ CanCall
    /\ Outbound("local_responding_started", None, LocalRespondingStartedEnvelope)

local_responding_ended ==
    /\ CanCall
    /\ Outbound("local_responding_ended", None, LocalRespondingEndedEnvelope)

stop ==
    /\ CanCall
    /\ Outbound("stop", None, StopEnvelope)

get_dialog_state ==
    /\ CanCall
    /\ Outbound("get_dialog_state", None, GetStateEnvelope)

request_to_respond(r) ==
    /\ CanCall
    /\ Outbound("request_to_respond", [t |-> "request", v |-> r],
                RespondEnvelope(r[1], r[2], r[3]))

Next ==
    \/ \E d \in StartDialogIds : start(d)
    \/ on_open
    \/ \E m \in Messages : on_message(m)
    \/ \E e \in TransportErrors : on_error(e)
    \/ remote_close
    \/ on_close
    \/ start_speech
    \/ \E b \in AudioSamples : send_audio_data(b)
    \/ stop_speech
    \/ interrupt
    \/ local_responding_started
    \/ local_responding_ended
    \/ stop
    \/ get_dialog_state
    \/ \E r \in RespondRequests : request_to_respond(r)

Spec == Init /\ [][Next]_vars

\* the run loop always finishes tearing down a connection that is closing
FairSpec == Spec /\ WF_vars(on_close)
(***************************************************************************)
(* Properties.                                                             *)
(***************************************************************************)
OutboundOps ==
    { "start_speech", "send_audio_data", "stop_speech", "interrupt",
      "local_responding_started", "local_responding_ended", "stop",
      "get_dialog_state", "request_to_respond" }

RecognizedActions == {"speech_audio", "speech_text", "reply_text", "state"}

\* the inbound message the last operation dispatched
LastMessage == last.arg.v

IsObject(message) == message.valid /\ message.json.t = "dict"

ActionOf(message) == Get(message.json.v, "action", None)

HasRecognizedAction(message) ==
    /\ IsObject(message)
    /\ ActionOf(message).t = "str"
    /\ ActionOf(message).v \in RecognizedActions

HasUnrecognizedAction(message) ==
    /\ IsObject(message)
    /\ ~(ActionOf(message).t = "str" /\ ActionOf(message).v \in RecognizedActions \cup {"close"})

Notifications(effects) == SelectSeq(effects, LAMBDA e : e.kind = "notify")

\* C1: an outbound action method called while the connection is not open
\* (before start(), between start() and the open event, after the close)
\* hands no envelope to the transport and returns without raising.
C1_NoSendUnlessOpen ==
    (last.op \in OutboundOps /\ sock # "open") => (last.effects = <<>> /\ ~last.raised)

\* the part of C1 that the guard does give: before start() has run
C1_BeforeStart ==
    (last.op \in OutboundOps /\ ws = 0) => (last.effects = <<>> /\ ~last.raised)

\* base64 of the speech_data samples (RFC 4648)
Base64Vectors ==
    { << <<>>, <<>> >>,
      << <<255>>, <<"/", "w", "=", "=">> >>,
      << <<97, 98>>, <<"Y", "W", "I", "=">> >>,
      << <<97, 98, 99>>, <<"Y", "W", "J", "j">> >> }

\* the envelope the table of outbound methods gives for a call
TableEnvelope(call) ==
    CASE call.op = "start_speech" -> [action |-> Str("start_speech")]
      [] call.op = "send_audio_data" ->
            [action |-> Str("audio"),
             data |-> Chars((CHOOSE p \in Base64Vectors : p[1] = call.arg.v)[2])]
      [] call.op = "stop_speech" -> [action |-> Str("stop_speech")]
      [] call.op = "interrupt" -> [action |-> Str("interrupt")]
      [] call.op = "local_responding_started" -> [action |-> Str("local_responding_started")]
      [] call.op = "local_responding_ended" -> [action |-> Str("local_responding_ended")]
      [] call.op = "stop" -> [action |-> Str("stop")]
      [] call.op = "get_dialog_state" -> [action |-> Str("get_state")]
      [] call.op = "request_to_respond" ->
            [action |-> Str("request_to_respond"),
             type |-> Str(call.arg.v[1]),
             text |-> Str(call.arg.v[2]),
             params |-> IF call.arg.v[3].t = "none" THEN Dict(<<>>)
                        ELSE Dict(call.arg.v[3].v)]

\* C2: while the connection is open the transport receives exactly one
\* envelope per outbound call, in call order, after the start envelope, each
\* with the action and fields of its method; the call itself hands over that
\* one envelope and returns.
C2_OneEnvelopePerCallInOrder ==
    sock = "open" =>
        /\ Len(sent) = Len(calls) + 1
        /\ \A i \in 1..Len(calls) : sent[i + 1] = TableEnvelope(calls[i])
        /\ last.op \in OutboundOps =>
              /\ last.effects = <<SendCall(TableEnvelope(calls[Len(calls)]))>>
              /\ ~last.raised
              /\ calls[Len(calls)] = [op |-> last.op, arg |-> last.arg]

C2_Witness ==
    /\ sock = "open"
    /\ Len(calls) = 2
    /\ calls[1] = [op |-> "send_audio_data", arg |-> Bytes(<<97, 98, 99>>)]
    /\ calls[2].op = "stop_speech"
    /\ sent[2].data = Chars(<<"Y", "W", "J", "j">>)

\* the notification the routing table gives for a recognized action
TableNotification(obj) ==
    LET a == obj.action.v IN
    CASE a = "speech_text" -> Notify("on_speech_content", Get(obj, "text", None))
      [] a = "reply_text" -> Notify("on_responding_content", Get(obj, "text", None))
      [] a = "state" -> Notify("on_state_changed", Get(obj, "state", None))

\* base64 text of the audio samples the server sends (RFC 4648), with the bytes
InboundVectors ==
    { << <<>>, <<>> >>,
      << <<104, 101, 108, 108, 111>>, <<"a", "G", "V", "s", "b", "G", "8", "=">> >>,
      << <<255, 0>>, <<"/", "w", "A", "=">> >> }

DataOf(message) == Get(message.json.v, "data", Chars(<<>>))

\* C3: an inbound message with a recognized action fires exactly one handler
\* notification, the matching one, with the extracted payload (for
\* speech_audio the decoded bytes), and nothing else.
C3_RecognizedActionFiresOneHandler ==
    (last.op = "_on_message" /\ HasRecognizedAction(LastMessage)) =>
        /\ Len(last.effects) = 1
        /\ last.effects[1].kind = "notify"
        /\ IF ActionOf(LastMessage).v = "speech_audio"
           THEN /\ last.effects[1].name = "on_speech_audio_data"
                /\ last.effects[1].val.t = "bytes"
                /\ \A p \in InboundVectors :
                      DataOf(LastMessage) = Chars(p[2]) => last.effects[1].val = Bytes(p[1])
           ELSE last.effects[1] = TableNotification(LastMessage.json.v)

\* the recognized messages the code does route as C3 says: every one except
\* speech_audio whose data is not base64 text
C3_WellFormedRouted ==
    (/\ last.op = "_on_message"
     /\ HasRecognizedAction(LastMessage)
     /\ ActionOf(LastMessage).v = "speech_audio" =>
           \E p \in InboundVectors : DataOf(LastMessage) = Chars(p[2]))
    => C3_RecognizedActionFiresOneHandler

C3_WellFormedReached ==
    /\ last.op = "_on_message"
    /\ last.effects = <<Notify("on_speech_audio_data", Bytes(<<104, 101, 108, 108, 111>>))>>

\* C4: an inbound message that is not valid JSON, or an object whose action
\* is not a recognized one, fires no notification, sends nothing, raises
\* nothing and leaves the connection open.
C4_MalformedOrUnknownIgnored ==
    (/\ last.op = "_on_message"
     /\ (~LastMessage.valid \/ HasUnrecognizedAction(LastMessage)))
    => (last.effects = <<>> /\ ~last.raised /\ sock = "open")

C4_Witness ==
    /\ last.op = "_on_message"
    /\ LastMessage = JsonText(Dict([action |-> Str("foo"), text |-> Str("x")]))
    /\ sock = "open"

\* the dialog id C5 names: the id passed to start(), else the constructor's, else ""
ExpectedDialogId ==
    IF passed_dialog_id.t = "str" THEN passed_dialog_id
    ELSE IF ctor_dialog_id.t = "str" THEN ctor_dialog_id
    ELSE Str("")

\* C5: on open the session notifies connected, then sends the start envelope
\* with the serialized session parameters, then notifies started with the
\* current dialog id, each once and in this order; the start envelope is the
\* first envelope on the connection.
C5_OpenSequence ==
    /\ last.op = "_on_open" =>
          /\ Len(last.effects) = 3
          /\ last.effects[1] = Notify("on_connected", None)
          /\ last.effects[2].kind = "send"
          /\ last.effects[2].val.v.action = Str("start")
          /\ last.effects[2].val.v.params = Json(RequestParameters(params_dialog_id))
          /\ last.effects[3] = Notify("on_started", ExpectedDialogId)
          /\ sent = <<last.effects[2].val.v>>
    /\ sock = "open" => (Len(sent) >= 1 /\ sent[1].action = Str("start"))
    /\ \A i \in 2..Len(sent) : sent[i].action # Str("start")

C5_Witness ==
    /\ last.op = "_on_open"
    /\ ctor_dialog_id = Str("d1")
    /\ passed_dialog_id = Str("d2")
    /\ last.effects[3].val = Str("d2")

\* C6: dispatching an inbound "close" calls ws.close() and no handler
\* callback; on_close is then notified, once for the connection.
C6_CloseThenOnClose ==
    /\ [](( /\ last.op = "_on_message"
            /\ IsObject(LastMessage)
            /\ ActionOf(LastMessage) = Str("close"))
          => (last.effects = <<CloseCall>> /\ closeReq /\ closes = 0))
    /\ [](closes <= 1)
    /\ (closeReq ~> (sock = "closed" /\ closes = 1))

C6_Witness == closeReq /\ sock = "closed" /\ closes = 1 /\ last.op = "_on_close"

\* C7: a session instance creates at most one connection in its lifetime.
C7_AtMostOneConnection == nconn <= 1

\* C8: on_stopped is one of the lifecycle notifications the session invokes:
\* once the session has ended with the connection closed, it has fired.
C8_StoppedOnSessionEnd == sock = "closed" => "on_stopped" \in fired

\* on_stopped is notified in no reachable state
C8_NeverStopped == "on_stopped" \notin fired

\* C9: for every inbound message _on_message returns without raising and
\* invokes at most one handler callback.
C9_DispatchNeverRaises ==
    last.op = "_on_message" =>
        (~last.raised /\ Len(Notifications(last.effects)) <= 1)

\* C10: the dialog id given to on_started equals the dialog_id inside the
\* params of the start envelope of the same open (unset read as "").
C10_StartedIdMatchesEnvelope ==
    last.op = "_on_open" =>
        \E i, j \in 1..Len(last.effects) :
            /\ last.effects[i].kind = "send"
            /\ last.effects[j].name = "on_started"
            /\ last.effects[j].val = Or(last.effects[i].val.v.params.v.dialog_id, Str(""))
====
